---- MODULE Spec2Model ----
(***************************************************************************)
(* A model of lambda_handler (src/lambda_function_new.py): one invocation  *)
(* that decodes an S3 event, starts a Transcribe job, polls its status,    *)
(* fetches the transcript, summarizes it and stores the summary.           *)
(*                                                                         *)
(* Strings.  A string is a sequence of fragments.  The object key of the   *)
(* event is a sequence of one-character strings, because unquote_plus and  *)
(* split work on its characters; an f-string is the concatenation of its   *)
(* literal fragments and of the values it interpolates.  A summary is a    *)
(* sequence of Unicode code points, because encode("utf-8") works on them. *)
(***************************************************************************)
EXTENDS Integers, Sequences, FiniteSets, TLC

VARIABLES
    event,            \* the trigger payload handed to lambda_handler
    pc,               \* the handler's position
    bucket,           \* line 24
    key,              \* line 25
    file_uri,         \* line 26
    job_name,         \* line 31
    media_format,     \* line 32
    attempt,          \* iterations of the for loop begun (line 46)
    job_status,       \* line 48
    transcript_text,  \* line 66
    summary,          \* line 78
    result,           \* the value lambda_handler returns
    store,            \* the object store: <<bucket, key>> -> object
    jobs,             \* the transcription service: the jobs submitted
    slept,            \* seconds spent in time.sleep
    log,              \* history: the external calls made, in order
    other             \* a second invocation, while it does not run: its frame

vars == <<event, pc, bucket, key, file_uri, job_name, media_format, attempt,
          job_status, transcript_text, summary, result, store, jobs, slept, log,
          other>>

----------------------------------------------------------------------------
(* Bounds of the model *)

MaxKeyLen == 4
MaxSummaryLen == 1
MaxConcurrentPolls == 1

(* Program constants *)

MaxAttempts == 30
SleepSeconds == 10

----------------------------------------------------------------------------
(* Helpers on sequences *)

Last(s) == s[Len(s)]

Contains(s, c) == \E i \in 1..Len(s) : s[i] = c

FirstIndex(s, c) == CHOOSE i \in 1..Len(s) : s[i] = c /\ \A j \in 1..(i-1) : s[j] # c

RECURSIVE Split(_, _)
\* str.split(sep) for a one-character separator: the pieces between the
\* separators, empty pieces kept.
Split(s, c) ==
    IF ~Contains(s, c) THEN <<s>>
    ELSE LET i == FirstIndex(s, c)
         IN  <<SubSeq(s, 1, i-1)>> \o Split(SubSeq(s, i+1, Len(s)), c)

RECURSIVE Flatten(_)
Flatten(ss) == IF ss = <<>> THEN <<>> ELSE Head(ss) \o Flatten(Tail(ss))

SeqsUpTo(S, n) == UNION {[1..m -> S] : m \in 1..n}

----------------------------------------------------------------------------
(* Characters *)

Printable ==
    <<" ", "!", "\"", "#", "$", "%", "&", "'", "(", ")", "*", "+", ",", "-", ".", "/",
      "0", "1", "2", "3", "4", "5", "6", "7", "8", "9", ":", ";", "<", "=", ">", "?",
      "@", "A", "B", "C", "D", "E", "F", "G", "H", "I", "J", "K", "L", "M", "N", "O",
      "P", "Q", "R", "S", "T", "U", "V", "W", "X", "Y", "Z", "[", "\\", "]", "^", "_",
      "U+0060", "a", "b", "c", "d", "e", "f", "g", "h", "i", "j", "k", "l", "m", "n", "o",
      "p", "q", "r", "s", "t", "u", "v", "w", "x", "y", "z", "{", "|", "}", "~">>

Ord(c) == 31 + FirstIndex(Printable, c)

ReplacementChar == "U+FFFD"
ControlChar == "U+00XX"

\* bytes.decode("utf-8", "replace") of one byte that stands alone: ASCII
\* decodes to its character; a byte of 0x80..0xFF outside a well-formed
\* multi-byte sequence decodes to U+FFFD.  (The hexadecimal digits of
\* KeyChars form no lead byte 0xC2..0xF4, so no multi-byte sequence arises.)
DecodeByte(b) ==
    IF b >= 32 /\ b <= 126 THEN Printable[b - 31]
    ELSE IF b < 128 THEN ControlChar
    ELSE ReplacementChar

HexDigits == {"0", "1", "2", "3", "4", "5", "6", "7", "8", "9",
              "a", "b", "c", "d", "e", "f", "A", "B", "C", "D", "E", "F"}

HexVal(c) ==
    IF Ord(c) >= 48 /\ Ord(c) <= 57 THEN Ord(c) - 48
    ELSE IF Ord(c) >= 97 THEN Ord(c) - 87
    ELSE Ord(c) - 55

\* str.lower() on one character.
LowerChar(c) ==
    IF c \in {Printable[i] : i \in 34..59} THEN Printable[Ord(c) + 1] ELSE c

Lower(s) == [i \in 1..Len(s) |-> LowerChar(s[i])]

----------------------------------------------------------------------------
(* urllib.parse.unquote_plus (line 25) *)

\* str.replace('+', ' ')
ReplacePlus(s) == [i \in 1..Len(s) |-> IF s[i] = "+" THEN " " ELSE s[i]]

\* unquote_to_bytes on one piece that followed a '%': its first two
\* characters, when both are hexadecimal digits, are the byte they spell;
\* otherwise the '%' is put back and the piece kept.
UnquoteItem(item) ==
    IF Len(item) >= 2 /\ item[1] \in HexDigits /\ item[2] \in HexDigits
    THEN <<DecodeByte(16 * HexVal(item[1]) + HexVal(item[2]))>> \o SubSeq(item, 3, Len(item))
    ELSE <<"%">> \o item

\* urllib.parse.unquote: split on '%', keep the first piece, unquote the rest.
unquote(s) ==
    IF ~Contains(s, "%") THEN s
    ELSE LET bits == Split(s, "%")
         IN  Head(bits) \o Flatten([i \in 1..(Len(bits) - 1) |-> UnquoteItem(bits[i + 1])])

unquote_no_plus(s) == unquote(s)

unquote_plus(s) == unquote(ReplacePlus(s))

\* key.split(".")[-1].lower() (line 32)
MediaFormat(k) == Lower(Last(Split(k, ".")))

----------------------------------------------------------------------------
(* str.encode("utf-8") (line 85) *)

IsSurrogate(c) == c >= 55296 /\ c <= 57343

EncodeCodePoint(c) ==
    IF c < 128 THEN <<c>>
    ELSE IF c < 2048 THEN <<192 + (c \div 64), 128 + (c % 64)>>
    ELSE IF c < 65536
         THEN <<224 + (c \div 4096), 128 + ((c \div 64) % 64), 128 + (c % 64)>>
         ELSE <<240 + (c \div 262144), 128 + ((c \div 4096) % 64),
                128 + ((c \div 64) % 64), 128 + (c % 64)>>

\* The strict error handler: a lone surrogate raises UnicodeEncodeError.
CanEncode(text) == \A i \in 1..Len(text) : ~IsSurrogate(text[i])

\* encode("ascii", "ignore"): the characters outside ASCII are dropped.
AsciiEncodeIgnore(text) == SelectSeq(text, LAMBDA c : c < 128)

Utf8Encode(text) == Flatten([i \in 1..Len(text) |-> EncodeCodePoint(text[i])])

----------------------------------------------------------------------------
(* Inputs and the answers of the external services *)

KeyChars == {"+", "%", "2", "B"}

ExampleKeys ==
    { <<"a", "%", "2", "B", "b", ".", "w", "a", "v">>,
      <<"c", "a", "l", "l", "s", "/", "v", "i", "s", "i", "t", "1", ".", "w", "a", "v">>,
      <<"m", "y", "+", "c", "a", "l", "l", ".", "M", "P", "3">> }

Keys == SeqsUpTo(KeyChars, MaxKeyLen) \cup ExampleKeys

Buckets == {"medrecs", "recordings"}

Record(b, k) == [s3 |-> [bucket |-> [name |-> b], object |-> [key |-> k]]]

\* Records that lack a piece of the container/key pair.
MalformedRecords ==
    { [eventName |-> "ObjectCreated:Put"],
      [s3 |-> [object |-> [key |-> <<"a">>]]],
      [s3 |-> [bucket |-> [arn |-> "arn"], object |-> [key |-> <<"a">>]]],
      [s3 |-> [bucket |-> [name |-> "medrecs"]]],
      [s3 |-> [bucket |-> [name |-> "medrecs"], object |-> [size |-> "1"]]] }

SecondRecords ==
    { Record("archive", <<"o", ".", "m", "p", "4">>), [eventName |-> "ObjectCreated:Put"] }

MalformedEvents ==
    {[Records |-> <<m>>] : m \in MalformedRecords}
    \cup {[Records |-> <<m, r>>] : m \in MalformedRecords, r \in SecondRecords}
    \cup {[Records |-> <<>>], [detail |-> "no records"]}

\* The payloads of the invocations: the example keys, payloads of two
\* records, and the malformed ones.
Events ==
    {[Records |-> <<Record("medrecs", k)>>] : k \in ExampleKeys}
    \cup {[Records |-> <<Record("recordings", <<"a", ".", "W", "A", "V">>), r>>] : r \in SecondRecords}
    \cup MalformedEvents

\* The payloads the Event Decoder is tried on: every key over KeyChars up to
\* MaxKeyLen besides.
DecoderEvents ==
    Events \cup {[Records |-> <<Record(b, k)>>] : b \in Buckets, k \in Keys}

\* uuid.uuid4().hex[:8]
JobIds == {"0a1b2c3d", "deadbeef"}

NonTerminal == {"SUBMITTED", "IN_PROGRESS"}
Statuses == NonTerminal \cup {"COMPLETED", "FAILED"}

Transcripts == { <<"Patient reports mild fever.">>, <<"Follow-up in two weeks.">> }

\* What the transcription service may leave at the output key: a body that
\* is no JSON, or a JSON document (given as the value json.loads returns).
TranscriptBodies ==
    {[json |-> [results |-> [transcripts |-> << [transcript |-> t] >>]]] : t \in Transcripts}
    \cup { [json |-> [results |-> [transcripts |-> << >>]]],
           [json |-> [results |-> [transcripts |-> << [confidence |-> "0.9"] >>]]],
           [json |-> [results |-> [items |-> << >>]]],
           [json |-> [jobName |-> "twilio"]],
           [raw |-> "<html>"] }

\* Code points: one per UTF-8 length, and a lone surrogate.
SummaryChars == {65, 233, 8364, 128512, 55296}

ExampleSummaries == { <<80, 233, 8364, 128512>>, <<65, 55296>> }

Summaries == {<<>>} \cup ExampleSummaries \cup SeqsUpTo(SummaryChars, MaxSummaryLen)

None == [none |-> TRUE]
Str(t) == [str |-> t]

\* response.choices[0].message.content: a string, or None
Contents == {Str(t) : t \in Summaries} \cup {None}

StartErrors == {"ConflictException"}
PollErrors == {"ThrottlingException"}
GetErrors == {"AccessDenied"}
CompleteErrors == {"RateLimitError"}
PutErrors == {"InternalError"}

----------------------------------------------------------------------------
(* Values *)

Unbound == <<"<unbound>">>

NoResult == [pending |-> TRUE]
Error(m) == [error |-> m]
Success(f) == [status |-> "success", summary_file |-> f]

\* A history entry: the call, its arguments, how it ended ("ok", "raise" or
\* the status returned, non-terminal statuses kept as "NONTERMINAL"), and
\* the message of the error raised.
Call(name, args, res, err) == [call |-> name, args |-> args, res |-> res, err |-> err]

Put(st, loc, obj) == [l \in DOMAIN st \cup {loc} |-> IF l = loc THEN obj ELSE st[l]]

\* A payload whose first record holds a container/key pair.
WellFormed(ev) ==
    /\ "Records" \in DOMAIN ev
    /\ Len(ev.Records) > 0
    /\ "s3" \in DOMAIN ev.Records[1]
    /\ {"bucket", "object"} \subseteq DOMAIN ev.Records[1].s3
    /\ "name" \in DOMAIN ev.Records[1].s3.bucket
    /\ "key" \in DOMAIN ev.Records[1].s3.object

RECURSIVE DecodeEscapes(_, _)
\* s read from left to right: a '%' followed by two hexadecimal digits is
\* the character they encode, and, where plusIsSpace, a '+' is a space;
\* every other character stands for itself.
DecodeEscapes(s, plusIsSpace) ==
    IF s = <<>> THEN <<>>
    ELSE IF s[1] = "%" /\ Len(s) >= 3 /\ s[2] \in HexDigits /\ s[3] \in HexDigits
    THEN <<DecodeByte(16 * HexVal(s[2]) + HexVal(s[3]))>>
         \o DecodeEscapes(SubSeq(s, 4, Len(s)), plusIsSpace)
    ELSE <<IF plusIsSpace /\ s[1] = "+" THEN " " ELSE s[1]>>
         \o DecodeEscapes(Tail(s), plusIsSpace)

\* The uploaded recording.
Audio == [Body |-> "RIFF", ContentType |-> "audio/wav"]

\* The objects in the store when the event is delivered: the recording the
\* first record names, under the key that the record holds in encoded form.
InitialStore(ev) ==
    IF WellFormed(ev)
    THEN Put(<<>>, <<ev.Records[1].s3.bucket.name,
                     DecodeEscapes(ev.Records[1].s3.object.key, TRUE)>>, Audio)
    ELSE <<>>

\* No second invocation.
NoInvocation == [absent |-> TRUE]

InitWith(ev) ==
    /\ event = ev
    /\ pc = "decode"
    /\ bucket = ""
    /\ key = Unbound
    /\ file_uri = Unbound
    /\ job_name = Unbound
    /\ media_format = Unbound
    /\ attempt = 0
    /\ job_status = "UNBOUND"
    /\ transcript_text = Unbound
    /\ summary = None
    /\ result = NoResult
    /\ store = InitialStore(ev)
    /\ jobs = {}
    /\ slept = 0
    /\ log = <<>>
    /\ other = NoInvocation

Init == \E ev \in Events : InitWith(ev)

InitDecoder == \E ev \in DecoderEvents : InitWith(ev)

----------------------------------------------------------------------------
(* lambda_handler *)

locals == <<bucket, key, file_uri, job_name, media_format, attempt,
            job_status, transcript_text, summary>>

\* The except clause falls off its end: the handler returns None.
RaiseNoReturn(msg) ==
    /\ result' = result
    /\ pc' = "done"

\* The failed step is tried again.
RaiseRetry(msg) ==
    /\ result' = result
    /\ pc' = pc

RaiseGeneric(msg) ==
    /\ result' = Error("error")
    /\ pc' = "done"

\* except Exception as e: return {"error": str(e)}  (lines 93-95)
Raise(msg) ==
    /\ result' = Error(msg)
    /\ pc' = "done"

\* The error the subscripts of lines 24-25 raise on ev, "" when they raise
\* none: str(KeyError(k)) is the quoted key, and [0] on an empty list is an
\* IndexError.
DecodeError(ev) ==
    IF "Records" \notin DOMAIN ev THEN "'Records'"
    ELSE IF Len(ev.Records) = 0 THEN "list index out of range"
    ELSE LET r == ev.Records[1]
         IN  IF "s3" \notin DOMAIN r THEN "'s3'"
             ELSE IF "bucket" \notin DOMAIN r.s3 THEN "'bucket'"
             ELSE IF "name" \notin DOMAIN r.s3.bucket THEN "'name'"
             ELSE IF "object" \notin DOMAIN r.s3 THEN "'object'"
             ELSE IF "key" \notin DOMAIN r.s3.object THEN "'key'"
             ELSE ""

\* event['Records'][0]
FirstRecord(ev) == ev.Records[1]

\* Subscripts that fall back on a default where a piece is missing.
DecodedWithDefaults(ev) ==
    LET r == IF "Records" \in DOMAIN ev /\ Len(ev.Records) > 0 THEN ev.Records[1] ELSE [none |-> TRUE]
        s3part == IF "s3" \in DOMAIN r THEN r.s3 ELSE [none |-> TRUE]
    IN  [bucket |-> IF "bucket" \in DOMAIN s3part /\ "name" \in DOMAIN s3part.bucket
                    THEN s3part.bucket.name ELSE "",
         key |-> IF "object" \in DOMAIN s3part /\ "key" \in DOMAIN s3part.object
                 THEN s3part.object.key ELSE <<>>]

\* Lines 24-25: the error raised, or the bucket name and the raw key of the
\* first record.
Decoded(ev) ==
    IF DecodeError(ev) # "" THEN [err |-> DecodeError(ev)]
    ELSE [bucket |-> FirstRecord(ev).s3.bucket.name,
          key |-> FirstRecord(ev).s3.object.key]

\* f"s3://{bucket}/{key}"  (line 26)
FileUri(b, k) == <<"s3://", b, "/">> \o k

\* Lines 24-28
Decode ==
    /\ pc = "decode"
    /\ LET d == Decoded(event)
       IN  IF "err" \in DOMAIN d
           THEN /\ Raise(d.err)
                /\ UNCHANGED locals
           ELSE /\ bucket' = d.bucket
                /\ key' = unquote_plus(d.key)
                /\ file_uri' = FileUri(bucket', key')
                /\ pc' = "start"
                /\ UNCHANGED <<job_name, media_format, attempt, job_status,
                               transcript_text, summary, result>>
    /\ UNCHANGED <<other, event, store, jobs, slept, log>>

JobName(hex) == <<"twilio-", hex>>

\* f"transcripts/{job_name}.json"  (line 40)
OutputKey(name) == <<"transcripts/">> \o name \o <<".json">>

\* A transcript key that differs from the output key of the job.
TranscriptKeyTxt(name) == <<"transcripts/">> \o name \o <<".txt">>

\* f"transcripts/{job_name}.json"  (line 62)
TranscriptKey(name) == <<"transcripts/">> \o name \o <<".json">>

\* The summary written over the transcript object.
SummaryKeyOfTranscript(name) == <<"transcripts/">> \o name \o <<".json">>

\* One summary key for every job.
SummaryKeyShared(name) == <<"summaries/">> \o <<"twilio">> \o <<"_summary.txt">>

\* f"summaries/{job_name}_summary.txt"  (line 81)
SummaryKey(name) == <<"summaries/">> \o name \o <<"_summary.txt">>

StartArgs(name, uri, fmt, b) ==
    [TranscriptionJobName |-> name, MediaFileUri |-> uri, MediaFormat |-> fmt,
     LanguageCode |-> "en-US", OutputBucketName |-> b, OutputKey |-> OutputKey(name)]

\* Lines 31-43
StartJob ==
    /\ pc = "start"
    /\ \E hex \in JobIds :
         /\ job_name' = JobName(hex)
         /\ media_format' = MediaFormat(key)
         /\ LET args == StartArgs(job_name', file_uri, media_format', bucket)
            IN  \/ /\ jobs' = jobs \cup {args}
                   /\ log' = Append(log, Call("startJob", args, "ok", ""))
                   /\ pc' = "poll"
                   /\ UNCHANGED result
                \/ \E e \in StartErrors :
                     /\ log' = Append(log, Call("startJob", args, "raise", e))
                     /\ Raise(e)
                     /\ UNCHANGED jobs
    /\ UNCHANGED <<other, event, bucket, key, file_uri, attempt, job_status,
                   transcript_text, summary, store, slept>>

NeverTerminal(status) == FALSE

CompletedOnly(status) == status = "COMPLETED"

\* job_status in ['COMPLETED', 'FAILED']  (line 50)
IsTerminal(status) == status \in {"COMPLETED", "FAILED"}

HasNextBeyond(n) == n < MaxAttempts + 1

\* for _ in range(30): whether an iteration follows n completed ones
HasNext(n) == n < MaxAttempts

\* Lines 47-51: one status query of the loop
Poll ==
    /\ pc = "poll"
    /\ attempt' = attempt + 1
    /\ LET args == [TranscriptionJobName |-> job_name]
       IN  \/ \E st \in Statuses :
                /\ job_status' = st
                /\ log' = Append(log, Call("getJobStatus", args,
                                           IF st \in NonTerminal THEN "NONTERMINAL" ELSE st, ""))
                /\ pc' = IF IsTerminal(st) THEN "check" ELSE "sleep"
                /\ UNCHANGED result
           \/ \E e \in PollErrors :
                /\ log' = Append(log, Call("getJobStatus", args, "raise", e))
                /\ Raise(e)
                /\ UNCHANGED job_status
    /\ UNCHANGED <<other, event, bucket, key, file_uri, job_name, media_format,
                   transcript_text, summary, store, jobs, slept>>

\* Lines 53-54, and the loop's step to its next iteration or its end
Sleep ==
    /\ pc = "sleep"
    /\ slept' = slept + SleepSeconds
    /\ log' = Append(log, Call("sleep", [secs |-> SleepSeconds], "ok", ""))
    /\ pc' = IF HasNext(attempt) THEN "poll" ELSE "check"
    /\ UNCHANGED <<other, event, locals, result, store, jobs>>

NeverFailed(status) == FALSE

FailsUnlessCompleted(status) == status # "COMPLETED"

\* if job_status == "FAILED"  (line 56)
IsFailed(status) == status = "FAILED"

\* Lines 56-59
CheckStatus ==
    /\ pc = "check"
    /\ IF IsFailed(job_status)
       THEN Raise("Transcription failed")
       ELSE /\ pc' = "get"
            /\ UNCHANGED result
    /\ UNCHANGED <<other, event, locals, store, jobs, slept, log>>

\* The error json.loads and the subscripts of lines 64-66 raise on a body,
\* "" when they raise none.
TranscriptError(body) ==
    IF "json" \notin DOMAIN body THEN "Expecting value: line 1 column 1 (char 0)"
    ELSE LET d == body.json
         IN  IF "results" \notin DOMAIN d THEN "'results'"
             ELSE IF "transcripts" \notin DOMAIN d.results THEN "'transcripts'"
             ELSE IF Len(d.results.transcripts) = 0 THEN "list index out of range"
             ELSE IF "transcript" \notin DOMAIN d.results.transcripts[1] THEN "'transcript'"
             ELSE ""

\* A missing or malformed transcript read as the empty text.
ExtractedWithDefault(body) ==
    IF TranscriptError(body) # "" THEN [text |-> <<"">>]
    ELSE [text |-> body.json.results.transcripts[1].transcript]

\* Lines 64-66: the error raised, or the transcript text of the body.
Extracted(body) ==
    IF TranscriptError(body) # "" THEN [err |-> TranscriptError(body)]
    ELSE [text |-> body.json.results.transcripts[1].transcript]

\* Lines 62-67
GetTranscript ==
    /\ pc = "get"
    /\ LET args == [Bucket |-> bucket, Key |-> TranscriptKey(job_name)]
           loc == <<bucket, TranscriptKey(job_name)>>
       IN  \/ \E e \in GetErrors :
                /\ log' = Append(log, Call("get", args, "raise", e))
                /\ Raise(e)
                /\ UNCHANGED transcript_text
           \/ /\ loc \notin DOMAIN store
              /\ log' = Append(log, Call("get", args, "raise", "NoSuchKey"))
              /\ Raise("NoSuchKey")
              /\ UNCHANGED transcript_text
           \/ /\ loc \in DOMAIN store
              /\ log' = Append(log, Call("get", args, "ok", ""))
              /\ LET x == Extracted(store[loc].Body)
                 IN  IF "err" \in DOMAIN x
                     THEN /\ Raise(x.err)
                          /\ UNCHANGED transcript_text
                     ELSE /\ transcript_text' = x.text
                          /\ pc' = "summarize"
                          /\ UNCHANGED result
    /\ UNCHANGED <<other, event, bucket, key, file_uri, job_name, media_format, attempt,
                   job_status, summary, store, jobs, slept>>

\* Lines 70-78
Summarize ==
    /\ pc = "summarize"
    /\ LET args == [model |-> "gpt-4o-mini",
                    system |-> "Summarize medical consultations clearly and concisely.",
                    user |-> transcript_text,
                    max_tokens |-> 300]
       IN  \/ \E c \in Contents :
                /\ summary' = c
                /\ log' = Append(log, Call("complete", args, "ok", ""))
                /\ pc' = "put"
                /\ UNCHANGED result
           \/ \E e \in CompleteErrors :
                /\ log' = Append(log, Call("complete", args, "raise", e))
                /\ Raise(e)
                /\ UNCHANGED summary
    /\ UNCHANGED <<other, event, bucket, key, file_uri, job_name, media_format, attempt,
                   job_status, transcript_text, store, jobs, slept>>

SummaryFileWithoutScheme(b, name) == <<b, "/">> \o SummaryKey(name)

\* f"s3://{bucket}/{summary_key}"  (line 91)
SummaryFile(b, name) == <<"s3://", b, "/">> \o SummaryKey(name)

\* Lines 81-91
PutSummary ==
    /\ pc = "put"
    /\ IF summary = None
       THEN /\ Raise("'NoneType' object has no attribute 'encode'")
            /\ UNCHANGED <<store, log>>
       ELSE IF ~CanEncode(summary.str)
       THEN /\ Raise("'utf-8' codec can't encode character: surrogates not allowed")
            /\ UNCHANGED <<store, log>>
       ELSE LET args == [Bucket |-> bucket, Key |-> SummaryKey(job_name),
                         Body |-> Utf8Encode(summary.str), ContentType |-> "text/plain"]
            IN  \/ /\ store' = Put(store, <<args.Bucket, args.Key>>,
                                   [Body |-> args.Body, ContentType |-> args.ContentType])
                   /\ log' = Append(log, Call("put", args, "ok", ""))
                   /\ result' = Success(SummaryFile(bucket, job_name))
                   /\ pc' = "done"
                \/ \E e \in PutErrors :
                     /\ log' = Append(log, Call("put", args, "raise", e))
                     /\ Raise(e)
                     /\ UNCHANGED store
    /\ UNCHANGED <<other, event, locals, jobs, slept>>

----------------------------------------------------------------------------
(* The transcription service *)

\* The service writes the output object of a submitted job, once, at the
\* OutputBucketName and OutputKey of the request (lines 39-40).
TranscribeWritesOutput ==
    /\ \E j \in jobs, b \in TranscriptBodies :
         /\ <<j.OutputBucketName, j.OutputKey>> \notin DOMAIN store
         /\ store' = Put(store, <<j.OutputBucketName, j.OutputKey>>,
                         [Body |-> b, ContentType |-> "application/json"])
    /\ UNCHANGED <<other, event, pc, locals, result, jobs, slept, log>>

----------------------------------------------------------------------------

Next ==
    \/ Decode
    \/ StartJob
    \/ Poll
    \/ Sleep
    \/ CheckStatus
    \/ GetTranscript
    \/ Summarize
    \/ PutSummary
    \/ TranscribeWritesOutput

Spec == Init /\ [][Next]_vars

\* The steps of lambda_handler: the steps of the one thread of control.
HandlerNext ==
    \/ Decode
    \/ StartJob
    \/ Poll
    \/ Sleep
    \/ CheckStatus
    \/ GetTranscript
    \/ Summarize
    \/ PutSummary

\* The handler keeps running while it has a step to take: every external
\* call and every sleep returns or raises.
FairSpec == Spec /\ WF_vars(HandlerNext)

\* The Event Decoder and the job submission alone (lines 24-43), on
\* DecoderEvents.
NextDecoder ==
    \/ Decode
    \/ StartJob

DecoderSpec == InitDecoder /\ [][NextDecoder]_vars

----------------------------------------------------------------------------
(* Two invocations *)

\* Each invocation of lambda_handler has its own locals (lines 24-91): the
\* frame of the one that runs is in the variables, the frame of the other
\* in `other`.  The object store and the transcription service are shared.
Frame ==
    [event |-> event, pc |-> pc, bucket |-> bucket, key |-> key,
     file_uri |-> file_uri, job_name |-> job_name, media_format |-> media_format,
     attempt |-> attempt, job_status |-> job_status,
     transcript_text |-> transcript_text, summary |-> summary, result |-> result,
     slept |-> slept, log |-> log]

\* The frame of an invocation as it is entered with ev.
Entered(ev) ==
    [event |-> ev, pc |-> "decode", bucket |-> "", key |-> Unbound,
     file_uri |-> Unbound, job_name |-> Unbound, media_format |-> Unbound,
     attempt |-> 0, job_status |-> "UNBOUND", transcript_text |-> Unbound,
     summary |-> None, result |-> NoResult, slept |-> 0, log |-> <<>>]

\* The scheduler lets the other invocation run.
Switch ==
    /\ other # NoInvocation
    /\ other' = Frame
    /\ event' = other.event
    /\ pc' = other.pc
    /\ bucket' = other.bucket
    /\ key' = other.key
    /\ file_uri' = other.file_uri
    /\ job_name' = other.job_name
    /\ media_format' = other.media_format
    /\ attempt' = other.attempt
    /\ job_status' = other.job_status
    /\ transcript_text' = other.transcript_text
    /\ summary' = other.summary
    /\ result' = other.result
    /\ slept' = other.slept
    /\ log' = other.log
    /\ UNCHANGED <<store, jobs>>

\* The payloads of two uploads to one container.
ConcurrentEvents ==
    { [Records |-> <<Record("medrecs", <<"a", ".", "w", "a", "v">>)>>],
      [Records |-> <<Record("medrecs", <<"b", ".", "m", "p", "3">>)>>] }

\* The answers of the services to the two invocations: two transcripts and
\* a body that is no JSON, two summaries.
ConcurrentBodies ==
    {[json |-> [results |-> [transcripts |-> << [transcript |-> t] >>]]] : t \in Transcripts}
    \cup { [raw |-> "<html>"] }

ConcurrentContents == { Str(<<65>>), Str(<<233>>) }

Merge(s1, s2) == [l \in DOMAIN s1 \cup DOMAIN s2 |-> IF l \in DOMAIN s1 THEN s1[l] ELSE s2[l]]

InitConcurrent ==
    \E ev1 \in ConcurrentEvents, ev2 \in ConcurrentEvents :
        /\ event = ev1
        /\ pc = "decode"
        /\ bucket = ""
        /\ key = Unbound
        /\ file_uri = Unbound
        /\ job_name = Unbound
        /\ media_format = Unbound
        /\ attempt = 0
        /\ job_status = "UNBOUND"
        /\ transcript_text = Unbound
        /\ summary = None
        /\ result = NoResult
        /\ slept = 0
        /\ log = <<>>
        /\ other = Entered(ev2)
        /\ store = Merge(InitialStore(ev1), InitialStore(ev2))
        /\ jobs = {}

\* The steps of the two invocations, interleaved in any order, each polling
\* up to MaxConcurrentPolls times.
NextConcurrent ==
    \/ Decode
    \/ StartJob
    \/ Poll /\ attempt < MaxConcurrentPolls
    \/ Sleep
    \/ CheckStatus
    \/ GetTranscript
    \/ Summarize /\ summary' \in ConcurrentContents \cup {summary}
    \/ PutSummary
    \/ TranscribeWritesOutput /\ \A l \in DOMAIN store' \ DOMAIN store :
                                     store'[l].Body \in ConcurrentBodies
    \/ Switch

ConcurrentSpec == InitConcurrent /\ [][NextConcurrent]_vars

----------------------------------------------------------------------------
(* Properties *)

Calls(name) == {i \in 1..Len(log) : log[i].call = name}

Called(name) == Calls(name) # {}

PollsReturning(res) == {i \in Calls("getJobStatus") : log[i].res = res}

SummaryObjects == {loc \in DOMAIN store : loc[2][1] = "summaries/"}

\* C1: the summarization call and the put under summaries/ happen only
\* after a status poll of this invocation has returned COMPLETED; after a
\* FAILED poll or 30 non-terminal polls neither is made.
C1_SummaryOnlyAfterCompleted ==
    \A i \in Calls("complete") \cup Calls("put") :
        \E j \in PollsReturning("COMPLETED") : j < i

\* C2: once a status poll has returned FAILED, the transcript get, the
\* summarization call and the put under summaries/ are never performed, and
\* the invocation returns {error: "Transcription failed"}.
C2_FailedAborts ==
    PollsReturning("FAILED") # {} =>
        /\ ~Called("get") /\ ~Called("complete") /\ ~Called("put")
        /\ SummaryObjects = {}
        /\ pc \in {"check", "done"}
        /\ pc = "done" => result = [error |-> "Transcription failed"]

C2_FirstPollFailed ==
    /\ pc = "done"
    /\ Len(log) = 2
    /\ log[2].call = "getJobStatus" /\ log[2].res = "FAILED"
    /\ result = [error |-> "Transcription failed"]

\* C3: no status poll and no sleep follows a poll that returned COMPLETED
\* or FAILED, and the call that follows a COMPLETED poll is the get of the
\* transcript object.
C3_StopsAtTerminal ==
    \A i \in PollsReturning("COMPLETED") \cup PollsReturning("FAILED") :
        /\ \A j \in (i+1)..Len(log) : log[j].call \notin {"getJobStatus", "sleep"}
        /\ log[i].res = "COMPLETED" =>
              IF i < Len(log)
              THEN /\ log[i+1].call = "get"
                   /\ log[i+1].args.Key = <<"transcripts/">> \o job_name \o <<".json">>
              ELSE pc \in {"check", "get"}

C3_CompletedThenGet ==
    \E i \in PollsReturning("COMPLETED") :
        /\ PollsReturning("NONTERMINAL") # {}
        /\ i < Len(log)
        /\ log[i+1].call = "get"

\* C4: at most 30 status polls are issued and at most 300 seconds (30
\* sleeps of 10) are slept, whatever statuses the service returns.
C4_PollBudget ==
    /\ Cardinality(Calls("getJobStatus")) <= 30
    /\ Cardinality(Calls("sleep")) <= 30
    /\ slept = 10 * Cardinality(Calls("sleep"))
    /\ slept <= 300

C4_BudgetSpent ==
    /\ Cardinality(Calls("getJobStatus")) = 30
    /\ slept = 300

\* C5: when all 30 polls return a non-terminal status the loop ends after
\* exactly 30 polls with the last status as job_status, "Transcription
\* failed" is not raised, and the handler goes on to get
\* transcripts/{jobId}.json.
C5_TimeoutFallsThrough ==
    /\ ((pc \in {"check", "get", "summarize", "put"} \/ Called("get"))
          /\ \A i \in Calls("getJobStatus") : log[i].res = "NONTERMINAL")
       => Cardinality(Calls("getJobStatus")) = 30
    /\ Cardinality(PollsReturning("NONTERMINAL")) = 30 =>
          /\ Cardinality(Calls("getJobStatus")) = 30
          /\ pc # "poll"
          /\ job_status \in NonTerminal
          /\ result # [error |-> "Transcription failed"]
          /\ pc = "done" => Called("get")
          /\ \A i \in Calls("get") :
                log[i].args = [Bucket |-> bucket,
                               Key |-> <<"transcripts/">> \o job_name \o <<".json">>]

C5_TimedOutAndFetched ==
    /\ Cardinality(PollsReturning("NONTERMINAL")) = 30
    /\ Called("get")
    /\ pc = "done"

\* C6: an error raised by any stage is caught at the one top-level
\* boundary and returned as {error: message}; an invocation that returns
\* an error record has written no object under summaries/.
C6_ErrorsCaught ==
    /\ \A i \in 1..Len(log) :
          log[i].res = "raise" =>
             /\ i = Len(log)
             /\ pc = "done"
             /\ result = [error |-> log[i].err]
    /\ (~WellFormed(event) /\ pc # "decode") =>
          /\ pc = "done"
          /\ DOMAIN result = {"error"}
    /\ pc = "done" <=> result # NoResult
    /\ pc = "done" => \/ DOMAIN result = {"error"}
                      \/ DOMAIN result = {"status", "summary_file"}
    /\ "error" \in DOMAIN result =>
          /\ SummaryObjects = {}
          /\ \A i \in Calls("put") : log[i].res = "raise"

C6_PutRaised ==
    /\ pc = "done"
    /\ Called("put")
    /\ log[Len(log)].call = "put"
    /\ log[Len(log)].res = "raise"
    /\ result = [error |-> "InternalError"]

RECURSIVE Utf8Decode(_)
\* The code points a well-formed UTF-8 byte sequence spells; <<-1>> ends
\* the result where the bytes are not well-formed.
Utf8Decode(bytes) ==
    IF bytes = <<>> THEN <<>>
    ELSE LET b == bytes[1]
             n == IF b < 128 THEN 1 ELSE IF b < 192 THEN 0 ELSE IF b < 224 THEN 2
                  ELSE IF b < 240 THEN 3 ELSE 4
             Cont(k) == bytes[k] - 128
         IN  IF n = 0 \/ n > Len(bytes)
                \/ \E k \in 2..n : bytes[k] < 128 \/ bytes[k] >= 192
             THEN <<-1>>
             ELSE << CASE n = 1 -> b
                       [] n = 2 -> (b - 192) * 64 + Cont(2)
                       [] n = 3 -> (b - 224) * 4096 + Cont(2) * 64 + Cont(3)
                       [] n = 4 -> (b - 240) * 262144 + Cont(2) * 4096 + Cont(3) * 64 + Cont(4) >>
                  \o Utf8Decode(SubSeq(bytes, n + 1, Len(bytes)))

\* C7: a run in which every stage succeeds returns {status: success,
\* summary_file: "s3://<container>/summaries/<jobId>_summary.txt"}, with the
\* container of the trigger event and the job identifier given to startJob,
\* and the object at that key then holds exactly the summarizer's text S,
\* with content type text/plain.
C7_SuccessResult ==
    /\ (pc = "done" /\ \E i \in Calls("put") : log[i].res = "ok") =>
          DOMAIN result = {"status", "summary_file"}
    /\ "status" \in DOMAIN result =>
          LET container == event.Records[1].s3.bucket.name
              jobId == log[1].args.TranscriptionJobName
              skey == <<"summaries/">> \o jobId \o <<"_summary.txt">>
          IN  /\ log[1].call = "startJob"
              /\ result = [status |-> "success",
                           summary_file |-> <<"s3://", container, "/">> \o skey]
              /\ <<container, skey>> \in DOMAIN store
              /\ store[<<container, skey>>].ContentType = "text/plain"
              /\ summary # None
              /\ Utf8Decode(store[<<container, skey>>].Body) = summary.str
              /\ SummaryObjects = {<<container, skey>>}

C7_SucceededAfterWaiting ==
    /\ pc = "done"
    /\ "status" \in DOMAIN result
    /\ Len(event.Records) = 2
    /\ event.Records[1].s3.bucket.name = "recordings"
    /\ PollsReturning("NONTERMINAL") # {}
    /\ PollsReturning("COMPLETED") # {}
    /\ summary = [str |-> <<80, 233, 8364, 128512>>]

Stage(call) ==
    CASE call = "startJob" -> 1
      [] call \in {"getJobStatus", "sleep"} -> 2
      [] call = "get" -> 3
      [] call = "complete" -> 4
      [] call = "put" -> 5

\* C8: the external calls of a run occur in the order startJob, one or more
\* getJobStatus, get(transcript), complete, put(summary): no call of an
\* earlier stage follows a call of a later one, and after a stage has failed
\* no call of a later stage is made.
C8_ForwardOrder ==
    /\ \A i \in 1..(Len(log) - 1) : Stage(log[i].call) <= Stage(log[i+1].call)
    /\ \A c \in {"startJob", "get", "complete", "put"} : Cardinality(Calls(c)) <= 1
    /\ log # <<>> => log[1].call = "startJob"
    /\ Called("get") => Called("getJobStatus")
    /\ Called("complete") => Called("get")
    /\ Called("put") => Called("complete")
    /\ \A i \in 1..Len(log) : log[i].res \in {"raise", "FAILED"} => i = Len(log)
    /\ "error" \in DOMAIN result => pc = "done"
    /\ ~WellFormed(event) => log = <<>>
    /\ \A i \in Calls("get") :
          (log[i].res = "ok"
             /\ TranscriptError(store[<<log[i].args.Bucket, log[i].args.Key>>].Body) # "")
          => ~Called("complete")
    /\ (summary = None \/ ~CanEncode(summary.str)) => ~Called("put")

C8_AllStagesCalled ==
    /\ Called("put")
    /\ PollsReturning("NONTERMINAL") # {}
    /\ [i \in 1..Len(log) |-> log[i].call]
         = <<"startJob", "getJobStatus", "sleep", "getJobStatus", "get", "complete", "put">>

DecodedPair(decodedKey) ==
    (WellFormed(event) /\ pc # "decode") =>
        /\ pc # "done" \/ log # <<>>
        /\ bucket = event.Records[1].s3.bucket.name
        /\ key = decodedKey
        /\ \A i \in Calls("startJob") :
              log[i].args.MediaFileUri = <<"s3://", event.Records[1].s3.bucket.name, "/">> \o decodedKey

\* C9 as stated: the key is the percent-decoded key of the first record.
C9_PercentDecoded ==
    DecodedPair(IF WellFormed(event)
                THEN DecodeEscapes(event.Records[1].s3.object.key, FALSE) ELSE <<>>)

\* C9, amended: for a payload whose first record is well-formed the Event
\* Decoder uses the first record only and yields its bucket name and its
\* key decoded as unquote_plus decodes it: every '+' is a space and every
\* %XX the character it encodes, so a%2Bb.wav is a+b.wav; the source URI
\* given to startJob is s3://<bucket>/<decoded key>.
C9_FormDecoded ==
    /\ DecodedPair(IF WellFormed(event)
                   THEN DecodeEscapes(event.Records[1].s3.object.key, TRUE) ELSE <<>>)
    /\ (WellFormed(event) /\ pc # "decode"
          /\ event.Records[1].s3.object.key = <<"a", "%", "2", "B", "b", ".", "w", "a", "v">>)
       => key = <<"a", "+", "b", ".", "w", "a", "v">>

C9_EscapedPlusDecoded ==
    /\ pc = "poll"
    /\ event.Records[1].s3.object.key = <<"+", "%", "2", "B">>
    /\ key = <<" ", "+">>
    /\ log[1].args.MediaFileUri = <<"s3://", "recordings", "/", " ", "+">>

\* C10: a payload with no records, or whose first record lacks a
\* well-formed container/key pair, makes the invocation return an error
\* record without calling startJob, getJobStatus, get, complete or put.
C10_MalformedNoEffects ==
    (~WellFormed(event) /\ pc # "decode") =>
        /\ pc = "done"
        /\ DOMAIN result = {"error"}
        /\ log = <<>>
        /\ jobs = {}
        /\ store = <<>>

C10_SecondRecordIgnored ==
    /\ pc = "done"
    /\ "Records" \in DOMAIN event
    /\ Len(event.Records) = 2
    /\ WellFormed([Records |-> Tail(event.Records)])
    /\ ~WellFormed(event)
    /\ result = [error |-> "'bucket'"]

\* C11: a transcript object that is missing, is not JSON, or lacks
\* results.transcripts[0].transcript makes the invocation return an error
\* record; no transcript text is defaulted, and neither the summarization
\* call nor the put under summaries/ is made.
C11_BadTranscriptAborts ==
    \A i \in Calls("get") :
        LET loc == <<log[i].args.Bucket, log[i].args.Key>>
        IN  (log[i].res = "raise" \/ TranscriptError(store[loc].Body) # "") =>
               /\ pc = "done"
               /\ DOMAIN result = {"error"}
               /\ log[i].res = "raise" => result = [error |-> log[i].err]
               /\ log[i].res = "ok" => result = [error |-> TranscriptError(store[loc].Body)]
               /\ transcript_text = Unbound
               /\ ~Called("complete") /\ ~Called("put")
               /\ SummaryObjects = {}

C11_EmptyTranscriptList ==
    /\ pc = "done"
    /\ Called("get")
    /\ log[Len(log)].res = "ok"
    /\ result = [error |-> "list index out of range"]
    /\ store[<<bucket, <<"transcripts/">> \o job_name \o <<".json">> >>].Body
         = [json |-> [results |-> [transcripts |-> << >>]]]

\* C13: nothing but the status check is repeated: in one invocation
\* startJob, get, the summarization call and put are each called at most
\* once, and a failed summarization call is not retried: it ends the
\* invocation with an error record and no put.
C13_NoRetries ==
    /\ \A c \in {"startJob", "get", "complete", "put"} : Cardinality(Calls(c)) <= 1
    /\ Cardinality(jobs) <= 1
    /\ \A i \in Calls("complete") :
          log[i].res = "raise" =>
             /\ i = Len(log)
             /\ pc = "done"
             /\ result = [error |-> log[i].err]
             /\ ~Called("put")
             /\ SummaryObjects = {}

C13_SummarizerFailedOnce ==
    /\ pc = "done"
    /\ Cardinality(Calls("getJobStatus")) = 3
    /\ Cardinality(Calls("complete")) = 1
    /\ log[Len(log)].call = "complete"
    /\ log[Len(log)].res = "raise"
    /\ result = [error |-> "RateLimitError"]

\* C15: one job identifier and one container correlate the artifacts of an
\* invocation: startJob is given the trigger's container and the output key
\* transcripts/{jobId}.json, get reads that container and key, every poll
\* names the job submitted, and put writes summaries/{jobId}_summary.txt in
\* the same container.
C15_Correlated ==
    /\ (Called("getJobStatus") \/ Called("get") \/ Called("put")) => Called("startJob")
    /\ \A i \in Calls("startJob") :
          LET a == log[i].args
              jobId == a.TranscriptionJobName
          IN  /\ a.OutputBucketName = event.Records[1].s3.bucket.name
              /\ a.OutputKey = <<"transcripts/">> \o jobId \o <<".json">>
              /\ \A j \in Calls("getJobStatus") : log[j].args.TranscriptionJobName = jobId
              /\ \A j \in Calls("get") :
                    /\ log[j].args.Bucket = a.OutputBucketName
                    /\ log[j].args.Key = a.OutputKey
              /\ \A j \in Calls("put") :
                    /\ log[j].args.Bucket = a.OutputBucketName
                    /\ log[j].args.Key = <<"summaries/">> \o jobId \o <<"_summary.txt">>

C15_AllArtifactsNamed ==
    /\ Called("put")
    /\ log[1].args.TranscriptionJobName = <<"twilio-", "deadbeef">>
    /\ log[1].args.OutputBucketName = "recordings"
    /\ log[Len(log)].args.Key = <<"summaries/", "twilio-", "deadbeef", "_summary.txt">>

\* C17: round trip: after a successful put of the summary, the object read
\* back from the same container and key holds UTF-8 bytes that decode to
\* exactly the text S the Summarizer returned, nothing cut or changed.
C17_RoundTrip ==
    \A i \in Calls("put") :
        log[i].res = "ok" =>
           LET loc == <<log[i].args.Bucket, log[i].args.Key>>
           IN  /\ loc \in DOMAIN store
               /\ store[loc].Body = log[i].args.Body
               /\ summary # None
               /\ Utf8Decode(store[loc].Body) = summary.str
               /\ Len(Utf8Decode(store[loc].Body)) = Len(summary.str)

C17_MultiByteSummaryStored ==
    /\ pc = "done"
    /\ Called("put")
    /\ log[Len(log)].res = "ok"
    /\ summary = [str |-> <<80, 233, 8364, 128512>>]
    /\ Len(store[<<bucket, <<"summaries/">> \o job_name \o <<"_summary.txt">> >>].Body) = 10

SleepsBefore(i) == Cardinality({j \in Calls("sleep") : j < i})

PollNumber(i) == Cardinality({j \in Calls("getJobStatus") : j <= i})

\* C18 as stated: k-1 sleeps precede a terminal status seen at poll k, and
\* no sleep follows the 30th poll, so at most 29 sleeps precede the fetch.
C18_NoSleepAfterLastPoll ==
    /\ \A i \in PollsReturning("COMPLETED") \cup PollsReturning("FAILED") :
          SleepsBefore(i) = PollNumber(i) - 1
    /\ \A i \in Calls("get") : SleepsBefore(i) <= 29

\* C18, amended: the orchestrator sleeps after every poll that returns a
\* non-terminal status and at no other time: when the first terminal status
\* is seen at poll k (1 <= k <= 30) exactly k-1 sleeps have occurred, and
\* when the 30 polls are exhausted without a terminal status a sleep follows
\* the 30th poll too, so exactly 30 sleeps precede the fetch.
C18_SleepAfterEachNonTerminalPoll ==
    /\ \A i \in Calls("sleep") :
          /\ i > 1
          /\ log[i-1].call = "getJobStatus"
          /\ log[i-1].res = "NONTERMINAL"
    /\ \A i \in PollsReturning("NONTERMINAL") :
          IF i < Len(log) THEN log[i+1].call = "sleep" ELSE pc = "sleep"
    /\ \A i \in PollsReturning("COMPLETED") \cup PollsReturning("FAILED") :
          /\ PollNumber(i) \in 1..30
          /\ SleepsBefore(i) = PollNumber(i) - 1
    /\ \A i \in Calls("get") :
          PollsReturning("COMPLETED") = {} =>
             /\ SleepsBefore(i) = 30
             /\ log[i-1].call = "sleep"

C18_SleptAfterThirtiethPoll ==
    /\ Called("get")
    /\ PollsReturning("COMPLETED") = {}
    /\ Cardinality(Calls("sleep")) = 30
    /\ log[Len(log) - 1].call = "sleep"
    /\ log[Len(log)].call = "get"

IsSuccessRecord(r) == DOMAIN r = {"status", "summary_file"}

IsErrorRecord(r) == DOMAIN r = {"error"}

\* C14: provided every external call and every sleep returns or raises,
\* every invocation terminates, and it terminates with exactly one Result:
\* a success record {status, summary_file} or an error record {error},
\* never both and never neither, and the Result does not change afterwards.
C14_TerminatesWithOneResult ==
    /\ <>(pc = "done")
    /\ [](pc = "done" => (IsSuccessRecord(result) /\ ~IsErrorRecord(result))
                           \/ (IsErrorRecord(result) /\ ~IsSuccessRecord(result)))
    /\ [](pc # "done" => result = NoResult)
    /\ [][pc = "done" => (pc' = "done" /\ result' = result)]_vars

C14_ReturnedAfterTimeout ==
    /\ pc = "done"
    /\ Cardinality(PollsReturning("NONTERMINAL")) = 30
    /\ IsSuccessRecord(result)

\* C16: the summary object is the sole durable output of an invocation:
\* the only change a step of the handler makes to the object store is one
\* put of summaries/{jobId}_summary.txt; it never puts, overwrites or
\* deletes the uploaded audio object or the transcript object, on failure
\* paths too, and it changes the transcription service's jobs only by
\* submitting one.
C16_SoleDurableOutput ==
    /\ [](\A loc \in DOMAIN InitialStore(event) :
             loc \in DOMAIN store /\ store[loc] = InitialStore(event)[loc])
    /\ [](Cardinality(Calls("put")) <= 1)
    /\ [][pc' # pc =>
            /\ \A loc \in DOMAIN store : loc \in DOMAIN store' /\ store'[loc] = store[loc]
            /\ \A loc \in DOMAIN store' \ DOMAIN store :
                  /\ pc = "put"
                  /\ loc = <<bucket, <<"summaries/">> \o job_name \o <<"_summary.txt">> >>
            /\ jobs' # jobs =>
                  /\ pc = "start"
                  /\ jobs = {}
                  /\ Cardinality(jobs') = 1
         ]_vars

C16_FailedAfterTranscriptWritten ==
    /\ pc = "done"
    /\ IsErrorRecord(result)
    /\ Len(log) > 0
    /\ log[Len(log)].call = "complete"
    /\ DOMAIN store = { <<bucket, key>>,
                        <<bucket, <<"transcripts/">> \o job_name \o <<".json">> >> }
    /\ store[<<bucket, key>>] = Audio

\* The places in the history of the invocation with frame f of its calls
\* of one name.
CallsOf(f, name) == {i \in 1..Len(f.log) : f.log[i].call = name}

Named(f) == f.job_name # Unbound

\* What the invocation with frame f does beside the one with frame g: it
\* submits a job under its own name, fetches only the output object of the
\* job it submitted, writes its summary under a key the other does not write
\* to, its summary object is still what it wrote, and its success result
\* names that object, whose content answers the transcript of its own job.
OwnArtifacts(f, g) ==
    /\ \A i \in CallsOf(f, "startJob") :
          /\ f.log[i].args.TranscriptionJobName = f.job_name
          /\ f.log[i].res = "ok" => f.log[i].args \in jobs
          /\ \A j \in CallsOf(g, "startJob") :
                g.log[j].args.TranscriptionJobName # f.log[i].args.TranscriptionJobName
    /\ \A i \in CallsOf(f, "get") :
          /\ \E k \in CallsOf(f, "startJob") :
                /\ k < i
                /\ f.log[i].args.Bucket = f.log[k].args.OutputBucketName
                /\ f.log[i].args.Key = f.log[k].args.OutputKey
          /\ \A j \in CallsOf(g, "startJob") :
                <<f.log[i].args.Bucket, f.log[i].args.Key>>
                    # <<g.log[j].args.OutputBucketName, g.log[j].args.OutputKey>>
    /\ \A i \in CallsOf(f, "put") :
          /\ \A j \in CallsOf(g, "put") :
                <<f.log[i].args.Bucket, f.log[i].args.Key>>
                    # <<g.log[j].args.Bucket, g.log[j].args.Key>>
          /\ f.log[i].res = "ok" =>
                /\ <<f.log[i].args.Bucket, f.log[i].args.Key>> \in DOMAIN store
                /\ store[<<f.log[i].args.Bucket, f.log[i].args.Key>>].Body = f.log[i].args.Body
    /\ IsSuccessRecord(f.result) =>
          \E i \in CallsOf(f, "put"), c \in CallsOf(f, "complete"), t \in CallsOf(f, "get") :
             /\ t < c /\ c < i
             /\ f.log[i].res = "ok"
             /\ f.result.summary_file
                    = <<"s3://", f.log[i].args.Bucket, "/">> \o f.log[i].args.Key
             /\ Utf8Decode(store[<<f.log[i].args.Bucket, f.log[i].args.Key>>].Body)
                    = f.summary.str
             /\ f.log[c].args.user
                    = store[<<f.log[t].args.Bucket, f.log[t].args.Key>>]
                          .Body.json.results.transcripts[1].transcript

\* C12: two invocations that run interleaved in any order and have
\* distinct job identifiers do not collide: each submits its own job,
\* fetches only the transcript object of its own job and writes its summary
\* to its own key, so neither overwrites the summary object of the other,
\* and each success result names the summary made from the transcript of
\* that invocation's own job.
C12_NoCollision ==
    ~(Named(Frame) /\ Named(other) /\ job_name = other.job_name)
        => OwnArtifacts(Frame, other) /\ OwnArtifacts(other, Frame)

C12_BothSucceededApart ==
    /\ pc = "done"
    /\ other.pc = "done"
    /\ IsSuccessRecord(result)
    /\ IsSuccessRecord(other.result)
    /\ job_name # other.job_name
    /\ event # other.event
    /\ summary # other.summary
    /\ transcript_text # other.transcript_text

====
